---- MODULE Spec2Model ----
(***************************************************************************)
(* gl-bench (src/src/main.rs): a GPU fill-rate benchmark.  main creates a  *)
(* window and a GL context, compiles and links one shader pair, generates  *)
(* a pool of timer queries and calls run_tests three times; run_tests      *)
(* issues one timed sample per query, presents it, then reads the results  *)
(* back and aggregates them.                                               *)
(*                                                                         *)
(* The model is the program's control flow at the granularity of its GL    *)
(* calls, together with the part of the GL machine those calls act on:     *)
(* object names, the active TIME_ELAPSED query, the depth buffer, the      *)
(* scissor box and the error flag.                                         *)
(***************************************************************************)
EXTENDS Integers, Sequences, FiniteSets, TLC

(***************************************************************************)
(* usize arithmetic.  The aggregation works on 64-bit unsigned integers    *)
(* and a query result is a 32-bit counter; both exceed TLC's 32-bit signed *)
(* integers, so a number is a little-endian sequence of base-2^15 digits   *)
(* without leading zeros (<< >> is 0).                                     *)
(***************************************************************************)
Base == 2^15

Zero == << >>

RECURSIVE Norm(_)
Norm(a) ==
    IF a = << >> THEN << >>
    ELSE IF a[Len(a)] = 0 THEN Norm(SubSeq(a, 1, Len(a) - 1))
    ELSE a

RECURSIVE FromNat(_)
FromNat(n) ==
    IF n = 0 THEN << >> ELSE <<n % Base>> \o FromNat(n \div Base)

Digit(a, i) == IF i <= Len(a) THEN a[i] ELSE 0

RECURSIVE AddC(_, _, _)
AddC(a, b, c) ==
    IF a = << >> /\ b = << >>
    THEN (IF c = 0 THEN << >> ELSE <<c>>)
    ELSE LET s == Digit(a, 1) + Digit(b, 1) + c
         IN  <<s % Base>> \o AddC(Tail(IF a = << >> THEN <<0>> ELSE a),
                                  Tail(IF b = << >> THEN <<0>> ELSE b),
                                  s \div Base)

Add(a, b) == Norm(AddC(a, b, 0))

\* a < b, compared from the most significant digit down.
RECURSIVE LessFrom(_, _, _)
LessFrom(a, b, i) ==
    IF i = 0 THEN FALSE
    ELSE IF a[i] # b[i] THEN a[i] < b[i]
    ELSE LessFrom(a, b, i - 1)

Less(a, b) ==
    IF Len(a) # Len(b) THEN Len(a) < Len(b) ELSE LessFrom(a, b, Len(a))

Leq(a, b) == ~Less(b, a)

\* a - b for b <= a.
RECURSIVE SubB(_, _, _)
SubB(a, b, br) ==
    IF a = << >> THEN << >>
    ELSE LET d == a[1] - Digit(b, 1) - br
         IN  <<(d + Base) % Base>>
               \o SubB(Tail(a), Tail(IF b = << >> THEN <<0>> ELSE b),
                       IF d < 0 THEN 1 ELSE 0)

Sub(a, b) == Norm(SubB(a, b, 0))

\* a * k for a machine-sized k < 2^15.
RECURSIVE MulC(_, _, _)
MulC(a, k, c) ==
    IF a = << >> THEN FromNat(c)
    ELSE LET p == a[1] * k + c
         IN  <<p % Base>> \o MulC(Tail(a), k, p \div Base)

MulSmall(a, k) == Norm(MulC(a, k, 0))

\* The largest q in lo..hi with d * q <= r (d * lo <= r is given).
RECURSIVE QuotDigit(_, _, _, _)
QuotDigit(r, d, lo, hi) ==
    IF lo = hi THEN lo
    ELSE LET mid == (lo + hi + 1) \div 2
         IN  IF Leq(MulSmall(d, mid), r)
             THEN QuotDigit(r, d, mid, hi)
             ELSE QuotDigit(r, d, lo, mid - 1)

\* Long division, most significant digit first: <<quotient, remainder>> of
\* the top i digits of a by d # 0.
RECURSIVE DivFrom(_, _, _)
DivFrom(a, d, i) ==
    IF i > Len(a) THEN <<Zero, Zero>>
    ELSE LET up == DivFrom(a, d, i + 1)
             r  == Norm(<<a[i]>> \o up[2])
             q  == QuotDigit(r, d, 0, Base - 1)
         IN  <<Norm(<<q>> \o up[1]), Sub(r, MulSmall(d, q))>>

\* Integer division a / d, rounding down (d # 0).
Div(a, d) == DivFrom(a, d, 1)[1]

\* 2^64 and 2^32 - 1 in this representation.
Two64 == <<0, 0, 0, 0, 16>>
U32Max == <<Base - 1, Base - 1, 3>>

Fits64(a) == Less(a, Two64)

\* a mod 2^64: what a wrapping usize operation keeps.
Wrap64(a) ==
    IF Fits64(a) THEN a
    ELSE Norm(SubSeq(a, 1, 4) \o <<a[5] % 16>>)

\* `x as GLsizei` of a usize: the low 32 bits read as a signed integer.
AsI32(a) ==
    LET low31 == Digit(a, 1) + Digit(a, 2) * Base + (Digit(a, 3) % 2) * 2^30
    IN  IF (Digit(a, 3) \div 2) % 2 = 1 THEN low31 - 2^30 - 2^30 ELSE low31

(***************************************************************************)
(* The program's constants.                                                *)
(***************************************************************************)
\* struct Config as main fills it in.
config ==
    [num_queries |-> 200, warmup_frames |-> 40, num_rejects |-> 20,
     clear_scissored |-> FALSE]

\* bitflags Flags: a value is a subset of these bits.
Flags == {"CLEAR", "DRAW"}

COLOR_BUFFER_BIT == "COLOR_BUFFER_BIT"
DEPTH_BUFFER_BIT == "DEPTH_BUFFER_BIT"

\* Window-space depth in halves: every vertex of VS_SRC has z = 0.0, which
\* the default depth range maps to 0.5; ClearDepth(1.0) is 2 halves.
TriangleDepth == 1
ClearDepthValue == 2

\* Scenarios with a first call that clears the colour buffer only.
Scenarios_ColorOnly ==
    << [test_name |-> "color and depth",
        clear_mask |-> {COLOR_BUFFER_BIT},
        num_draws |-> FromNat(1), flags |-> {"DRAW"}],
       [test_name |-> "depth rejected",
        clear_mask |-> {COLOR_BUFFER_BIT},
        num_draws |-> FromNat(config.num_rejects), flags |-> {"DRAW"}],
       [test_name |-> "depth rejected",
        clear_mask |-> {COLOR_BUFFER_BIT},
        num_draws |-> FromNat(config.num_rejects), flags |-> {"CLEAR"}] >>

\* The three run_tests calls of main, in order: the arguments that differ.
Scenarios ==
    << [test_name |-> "color and depth",
        clear_mask |-> {COLOR_BUFFER_BIT, DEPTH_BUFFER_BIT},
        num_draws |-> FromNat(1), flags |-> {"DRAW"}],
       [test_name |-> "depth rejected",
        clear_mask |-> {COLOR_BUFFER_BIT},
        num_draws |-> FromNat(config.num_rejects), flags |-> {"DRAW"}],
       [test_name |-> "depth rejected",
        clear_mask |-> {COLOR_BUFFER_BIT},
        num_draws |-> FromNat(config.num_rejects), flags |-> {"CLEAR"}] >>

(***************************************************************************)
(* Bounds and input sets of the run_tests harness.                         *)
(***************************************************************************)
MaxLen == 3
MaxWarmup == 2

\* Instance counts: none, one, several, and one whose product with a
\* sample count of 2 is 2^64.
Two63 == <<0, 0, 0, 0, 8>>
NumDraws == {Zero, FromNat(1), FromNat(2), Two63}

\* TIME_ELAPSED results a query may report: 32-bit counters.
ResultSet == {FromNat(7), U32Max}

\* The window: inner size and hiDPI factor (a ratio <<num, den>>).
Windows ==
    { [size |-> <<0, 0>>, hidpi |-> <<1, 1>>],
      [size |-> <<1, 1>>, hidpi |-> <<3, 2>>],
      [size |-> <<2, 2>>, hidpi |-> <<1, 1>>],
      [size |-> <<3, 2>>, hidpi |-> <<3, 2>>] }

\* Depth values a never-cleared depth buffer may hold.
DepthValues == {0, TriangleDepth, ClearDepthValue}

(***************************************************************************)
(* GL objects are <<type, name>>.                                          *)
(***************************************************************************)
Shader(k) == <<"shader", k>>
Program(k) == <<"program", k>>
VertexArray(k) == <<"vao", k>>
Query(k) == <<"query", k>>

QuerySet(n) == {Query(k) : k \in 1..n}

Pixels(size) == (0..(size[1] - 1)) \X (0..(size[2] - 1))

VARIABLES
    pc,             \* the statement the program is at
    panic,          \* "" or the panic that ended the process
    debug,          \* built with debug assertions and overflow checks
    window,         \* the window: inner size and hiDPI factor
    gpu,            \* how the GPU times a bracket (see Elapsed)
    status,         \* outcome of context creation, compile and link
    calls,          \* object-lifetime GL calls made so far, in order
    queries,        \* main's Vec of query names
    gl,             \* GL context state
    depth,          \* the depth buffer: pixel -> depth
    qobj,           \* query name -> [begun, ended, result]
    out,            \* lines printed so far
    width, height,  \* main's inner size
    timings,        \* main's fs_color, mp_color, mp_depth_reject, mp_color_clear
    scenario,       \* number of run_tests calls started
    args,           \* run_tests' arguments
    i,              \* run_tests: 1-based position of `query` in the loop
    ridx,           \* run_tests: 1-based position of the result being read
    total_time, pixel_count, total_draws, fullscreen_time, megapixel_time,
    ev,             \* GL calls and swaps of the current sample, in order
    issued,         \* query names sampled in this run_tests call, in order
    swaps,          \* buffer swaps in this run_tests call
    reads,          \* results read back in this run_tests call
    drawn           \* outcome of the last draw call

vars ==
    <<pc, panic, debug, window, gpu, status, calls, queries, gl, depth, qobj,
      out, width, height, timings, scenario, args, i, ridx, total_time,
      pixel_count, total_draws, fullscreen_time, megapixel_time, ev, issued,
      swaps, reads, drawn>>

env_vars == <<debug, window, gpu>>
main_vars == <<status, calls, queries, out, width, height, timings>>
local_vars ==
    <<i, ridx, total_time, pixel_count, total_draws, fullscreen_time,
      megapixel_time>>
hist_vars == <<ev, issued, swaps, reads, drawn>>

(***************************************************************************)
(* The GL machine, as far as the program drives it.                        *)
(***************************************************************************)
NO_ERROR == "NO_ERROR"

\* A fresh context: GL's initial state for what the program touches.
FreshContext(size) ==
    [depth_test |-> FALSE, depth_func |-> "LESS", depth_mask |-> TRUE,
     clear_depth |-> ClearDepthValue, clear_color |-> <<0, 0, 0, 0>>,
     scissor_test |-> FALSE, scissor_box |-> <<0, 0, size[1], size[2]>>,
     program |-> 0, vao |-> 0, active |-> 0, error |-> NO_ERROR]

\* GL records the first error until GetError reads it.
RaiseError(g, e) == IF g.error = NO_ERROR THEN [g EXCEPT !.error = e] ELSE g

\* gl::BeginQuery(TIME_ELAPSED, q): an error while a query is active.
BeginQuery(g, q) ==
    IF g.active # 0 THEN RaiseError(g, "INVALID_OPERATION")
    ELSE [g EXCEPT !.active = q]

\* Pixels the scissor test lets through.
InScissor(g, p) ==
    \/ ~g.scissor_test
    \/ /\ g.scissor_box[1] <= p[1]
       /\ p[1] < g.scissor_box[1] + g.scissor_box[3]
       /\ g.scissor_box[2] <= p[2]
       /\ p[2] < g.scissor_box[2] + g.scissor_box[4]

\* gl::Clear(mask) on the depth buffer.
ClearDepthBuffer(g, d, mask) ==
    [p \in DOMAIN d |->
        IF DEPTH_BUFFER_BIT \in mask /\ g.depth_mask /\ InScissor(g, p)
        THEN g.clear_depth ELSE d[p]]

\* The depth test of one fragment at depth z against the stored depth.
DepthPass(g, z, stored) ==
    \/ ~g.depth_test
    \/ g.depth_func = "LESS" /\ z < stored
    \/ g.depth_func = "LEQUAL" /\ z <= stored
    \/ g.depth_func = "ALWAYS"

\* One instance of the full-screen triangle: every pixel gets a fragment at
\* TriangleDepth.  acc is [depth, pass, fail].
DrawInstance(g, acc) ==
    LET live == {p \in DOMAIN acc.depth : InScissor(g, p)}
        pass == {p \in live : DepthPass(g, TriangleDepth, acc.depth[p])}
    IN  [depth |-> [p \in DOMAIN acc.depth |->
                      IF p \in pass /\ g.depth_test /\ g.depth_mask
                      THEN TriangleDepth ELSE acc.depth[p]],
         pass |-> acc.pass + Cardinality(pass),
         fail |-> acc.fail + Cardinality(live \ pass)]

RECURSIVE DrawInstances(_, _, _)
DrawInstances(g, acc, k) ==
    IF k <= 0 THEN acc ELSE DrawInstances(g, DrawInstance(g, acc), k - 1)

\* How long the GPU reports a bracket took.  The time is the hardware's to
\* choose: "free" is any counter value; "max" and "ramp" are fixed timings
\* (saturated, and distinct per query and call) for runs with large pools.
Elapsed(q, s) ==
    CASE gpu = "free" -> ResultSet
      [] gpu = "max"  -> {U32Max}
      [] gpu = "ramp" -> {FromNat(1000 * q + s)}

(***************************************************************************)
(* Panics, assertions, printing.                                           *)
(***************************************************************************)
Panic(why) == pc' = "panicked" /\ panic' = why

Goto(l) == pc' = l /\ panic' = panic

\* An assertion that lets every status through.
AssertStatus_Ignored(st) == TRUE

\* assert_eq!(status, 1)
AssertStatus(st) == st = 1

Println(line) == out' = Append(out, line)

NoTimings ==
    [fs_color |-> Zero, mp_color |-> Zero, mp_depth_reject |-> Zero,
     mp_color_clear |-> Zero]

NoArgs ==
    [test_name |-> "", clear_mask |-> {}, num_draws |-> Zero, warmup |-> 0,
     flags |-> {}, clear_scissored |-> FALSE, width |-> 0, height |-> 0]

NoDraw == [pass |-> 0, fail |-> 0, changed |-> FALSE]

(***************************************************************************)
(* main                                                                    *)
(***************************************************************************)
\* GlWindow::new(..).unwrap() and make_current().unwrap().
M_CreateWindow ==
    /\ pc = "create_window"
    /\ \E ok \in {0, 1} :
        /\ status' = [status EXCEPT !.ctx = ok]
        /\ IF ok = 1 THEN Goto("compile_vs") ELSE Panic("GlWindow::new")
    /\ UNCHANGED <<env_vars, calls, queries, gl, depth, qobj, out, width,
                   height, timings, scenario, args, local_vars, hist_vars>>

\* compile_shader: CreateShader, CompileShader, assert on COMPILE_STATUS.
compile_shader(at, which, name, next) ==
    /\ pc = at
    /\ calls' = Append(calls, [call |-> "CreateShader", objs |-> {Shader(name)}])
    /\ \E st \in {0, 1} :
        /\ status' = [status EXCEPT ![which] = st]
        /\ IF AssertStatus(st) THEN Goto(next) ELSE Panic("compile_shader")
    /\ UNCHANGED <<env_vars, queries, gl, depth, qobj, out, width, height,
                   timings, scenario, args, local_vars, hist_vars>>

M_CompileVS == compile_shader("compile_vs", "vs", 1, "compile_fs")

M_CompileFS == compile_shader("compile_fs", "fs", 2, "link")

\* link_program: CreateProgram, attach, LinkProgram, assert on LINK_STATUS.
link_program ==
    /\ pc = "link"
    /\ calls' = Append(calls, [call |-> "CreateProgram", objs |-> {Program(1)}])
    /\ \E st \in {0, 1} :
        /\ status' = [status EXCEPT !.link = st]
        /\ IF AssertStatus(st) THEN Goto("gen") ELSE Panic("link_program")
    /\ UNCHANGED <<env_vars, queries, gl, depth, qobj, out, width, height,
                   timings, scenario, args, local_vars, hist_vars>>

\* The names GenQueries writes into a vector of n zeros.
GenQueries(n) == [k \in 1..n |-> k]

\* vec![0; num_queries], GenVertexArrays, GenQueries, BindVertexArray,
\* UseProgram, assert_eq!(GetError(), 0).
M_GenObjects ==
    /\ pc = "gen"
    /\ queries' = GenQueries(config.num_queries)
    /\ calls' = calls \o
         << [call |-> "GenVertexArrays", objs |-> {VertexArray(1)}],
            [call |-> "GenQueries", objs |-> QuerySet(config.num_queries)] >>
    /\ qobj' = [k \in 1..config.num_queries |->
                  [begun |-> 0, ended |-> 0, result |-> Zero]]
    /\ gl' = [gl EXCEPT !.vao = 1, !.program = 1, !.error = NO_ERROR]
    /\ IF gl.error = NO_ERROR THEN Goto("set_state") ELSE Panic("GetError")
    /\ UNCHANGED <<env_vars, status, depth, out, width, height, timings,
                   scenario, args, local_vars, hist_vars>>

\* ClearColor, ClearDepth(1.0), Enable(DEPTH_TEST), DepthFunc(LESS),
\* DepthMask(TRUE).
SetPipelineState(g) ==
    [g EXCEPT !.clear_color = <<3, 3, 3, 10>>,
              !.clear_depth = ClearDepthValue,
              !.depth_test = TRUE,
              !.depth_func = "LESS",
              !.depth_mask = TRUE]

M_SetState ==
    /\ pc = "set_state"
    /\ gl' = SetPipelineState(gl)
    /\ Goto("print_info")
    /\ UNCHANGED <<env_vars, main_vars, depth, qobj, scenario, args,
                   local_vars, hist_vars>>

\* Renderer and version strings, the inner size, the screen line.
M_PrintInfo ==
    /\ pc = "print_info"
    /\ width' = window.size[1]
    /\ height' = window.size[2]
    /\ out' = out \o <<"Renderer", "Version", "Screen">>
    /\ Goto("scenario_1")
    /\ UNCHANGED <<env_vars, status, calls, queries, gl, depth, qobj,
                   timings, scenario, args, local_vars, hist_vars>>

\* Entering run_tests with the arguments of main's k-th call.
CallArgs(k) ==
    [test_name |-> Scenarios[k].test_name,
     clear_mask |-> Scenarios[k].clear_mask,
     num_draws |-> Scenarios[k].num_draws,
     warmup |-> config.warmup_frames,
     flags |-> Scenarios[k].flags,
     clear_scissored |-> config.clear_scissored,
     width |-> width, height |-> height]

\* The first statement of run_tests for a pool of n queries.
Entry(n) == IF n = 0 THEN "rt_slice" ELSE "rt_begin1"

Call(k) ==
    /\ scenario' = k
    /\ args' = CallArgs(k)
    /\ i' = 1
    /\ ridx' = 0
    /\ total_time' = Zero
    /\ pixel_count' = 0
    /\ total_draws' = Zero
    /\ fullscreen_time' = Zero
    /\ megapixel_time' = Zero
    /\ ev' = << >>
    /\ issued' = << >>
    /\ swaps' = 0
    /\ reads' = << >>
    /\ Goto(Entry(Len(queries)))

M_RunColorDepth ==
    /\ pc = "scenario_1"
    /\ Call(1)
    /\ UNCHANGED <<env_vars, main_vars, gl, depth, qobj, drawn>>

\* let (fs_color, mp_color) = ..; Flush; ClearColor; the second call.
M_RunDepthReject ==
    /\ pc = "rt_returned" /\ scenario = 1
    /\ timings' = [timings EXCEPT !.fs_color = fullscreen_time,
                                  !.mp_color = megapixel_time]
    /\ gl' = [gl EXCEPT !.clear_color = <<10, 3, 3, 10>>]
    /\ Call(2)
    /\ UNCHANGED <<env_vars, status, calls, queries, out, width, height,
                   depth, qobj, drawn>>

\* let (_, mp_depth_reject) = ..; the third call.
M_RunClear ==
    /\ pc = "rt_returned" /\ scenario = 2
    /\ timings' = [timings EXCEPT !.mp_depth_reject = megapixel_time]
    /\ Call(3)
    /\ UNCHANGED <<env_vars, status, calls, queries, out, width, height, gl,
                   depth, qobj, drawn>>

\* let (_, mp_color_clear) = ..; the table entry.
M_PrintTable ==
    /\ pc = "rt_returned" /\ scenario = 3
    /\ timings' = [timings EXCEPT !.mp_color_clear = megapixel_time]
    /\ out' = out \o <<"Table entry", "row">>
    /\ Goto("delete")
    /\ UNCHANGED <<env_vars, status, calls, queries, width, height, gl,
                   depth, qobj, scenario, args, local_vars, hist_vars>>

\* DeleteProgram, DeleteShader(fs), DeleteShader(vs), DeleteVertexArrays.
DeleteCalls ==
    << [call |-> "DeleteProgram", objs |-> {Program(1)}],
       [call |-> "DeleteShader", objs |-> {Shader(2)}],
       [call |-> "DeleteShader", objs |-> {Shader(1)}],
       [call |-> "DeleteVertexArrays", objs |-> {VertexArray(1)}] >>

M_Delete ==
    /\ pc = "delete"
    /\ calls' = calls \o DeleteCalls
    /\ Goto("done")
    /\ UNCHANGED <<env_vars, status, queries, gl, depth, qobj, out, width,
                   height, timings, scenario, args, local_vars, hist_vars>>

(***************************************************************************)
(* run_tests: the sample loop                                              *)
(***************************************************************************)
\* The second BeginQuery left out, and the first EndQuery keyed on CLEAR.
BeginsAfterClear_Never(flags) == FALSE
EndsBeforeDraw_OnClear(flags) == ~("CLEAR" \in flags)

\* Where the flags put BeginQuery and EndQuery around Clear and Draw.
BeginsBeforeClear(flags) == "CLEAR" \in flags
BeginsAfterClear(flags) == ~("CLEAR" \in flags)
EndsBeforeDraw(flags) == ~("DRAW" \in flags)
EndsAfterDraw(flags) == "DRAW" \in flags

Event(op, q) == [op |-> op, q |-> q]

\* gl::BeginQuery(gl::TIME_ELAPSED, query), after the events in base.
IssueBegin(q, base) ==
    /\ gl' = BeginQuery(gl, q)
    /\ qobj' = IF gl.active = 0 THEN [qobj EXCEPT ![q].begun = scenario]
               ELSE qobj
    /\ ev' = Append(base, Event("BeginQuery", q))
    /\ issued' = Append(issued, q)

\* gl::EndQuery(gl::TIME_ELAPSED): the active query gets its result.
IssueEnd ==
    /\ ev' = Append(ev, Event("EndQuery", gl.active))
    /\ IF gl.active = 0
       THEN /\ gl' = RaiseError(gl, "INVALID_OPERATION")
            /\ qobj' = qobj
       ELSE /\ gl' = [gl EXCEPT !.active = 0]
            /\ \E r \in Elapsed(gl.active, scenario) :
                 qobj' = [qobj EXCEPT ![gl.active] =
                            [begun |-> @.begun, ended |-> scenario,
                             result |-> r]]

RT_Begin1 ==
    /\ pc = "rt_begin1"
    /\ IF BeginsBeforeClear(args.flags)
       THEN IssueBegin(queries[i], << >>)
       ELSE ev' = << >> /\ UNCHANGED <<gl, qobj, issued>>
    /\ Goto("rt_clear")
    /\ UNCHANGED <<env_vars, main_vars, depth, scenario, args, local_vars,
                   swaps, reads, drawn>>

\* The box of gl::Scissor(1, 1, (width / 2) as i32, (height / 2) as i32).
ScissorBox(w, h) == <<1, 1, w \div 2, h \div 2>>

\* The context while gl::Clear runs.
ClearingContext(g, a) ==
    IF a.clear_scissored
    THEN [g EXCEPT !.scissor_test = TRUE,
                   !.scissor_box = ScissorBox(a.width, a.height)]
    ELSE g

RT_Clear ==
    /\ pc = "rt_clear"
    /\ depth' = ClearDepthBuffer(ClearingContext(gl, args), depth,
                                 args.clear_mask)
    /\ gl' = [ClearingContext(gl, args) EXCEPT
                !.scissor_test = IF args.clear_scissored THEN FALSE ELSE @]
    /\ ev' = Append(ev, Event("Clear", 0))
    /\ Goto("rt_begin2")
    /\ UNCHANGED <<env_vars, main_vars, qobj, scenario, args, local_vars,
                   issued, swaps, reads, drawn>>

RT_Begin2 ==
    /\ pc = "rt_begin2"
    /\ IF BeginsAfterClear(args.flags)
       THEN IssueBegin(queries[i], ev)
       ELSE UNCHANGED <<gl, qobj, ev, issued>>
    /\ Goto("rt_end1")
    /\ UNCHANGED <<env_vars, main_vars, depth, scenario, args, local_vars,
                   swaps, reads, drawn>>

RT_End1 ==
    /\ pc = "rt_end1"
    /\ IF EndsBeforeDraw(args.flags)
       THEN IssueEnd
       ELSE UNCHANGED <<gl, qobj, ev>>
    /\ Goto("rt_draw")
    /\ UNCHANGED <<env_vars, main_vars, depth, scenario, args, local_vars,
                   issued, swaps, reads, drawn>>

\* gl::DrawArraysInstanced(gl::TRIANGLES, 0, 3, num_draws as _)
RT_Draw ==
    /\ pc = "rt_draw"
    /\ LET k == AsI32(args.num_draws)
           res == DrawInstances(gl, [depth |-> depth, pass |-> 0, fail |-> 0], k)
       IN  IF k < 0
           THEN /\ gl' = RaiseError(gl, "INVALID_VALUE")
                /\ UNCHANGED <<depth, drawn>>
           ELSE /\ depth' = res.depth
                /\ drawn' = [pass |-> res.pass, fail |-> res.fail,
                             changed |-> res.depth # depth]
                /\ gl' = gl
    /\ ev' = Append(ev, Event("Draw", 0))
    /\ Goto("rt_end2")
    /\ UNCHANGED <<env_vars, main_vars, qobj, scenario, args, local_vars,
                   issued, swaps, reads>>

RT_End2 ==
    /\ pc = "rt_end2"
    /\ IF EndsAfterDraw(args.flags)
       THEN IssueEnd
       ELSE UNCHANGED <<gl, qobj, ev>>
    /\ Goto("rt_assert")
    /\ UNCHANGED <<env_vars, main_vars, depth, scenario, args, local_vars,
                   issued, swaps, reads, drawn>>

\* debug_assert_eq!(gl::GetError(), 0): compiled only into debug builds.
RT_DebugAssert ==
    /\ pc = "rt_assert"
    /\ IF debug
       THEN /\ gl' = [gl EXCEPT !.error = NO_ERROR]
            /\ IF gl.error = NO_ERROR THEN Goto("rt_swap")
               ELSE Panic("debug_assert")
       ELSE gl' = gl /\ Goto("rt_swap")
    /\ UNCHANGED <<env_vars, main_vars, depth, qobj, scenario, args,
                   local_vars, hist_vars>>

\* gl_window.swap_buffers().unwrap(), then the next query of the loop.
RT_Swap ==
    /\ pc = "rt_swap"
    /\ \E ok \in BOOLEAN :
        IF ok
        THEN /\ swaps' = swaps + 1
             /\ ev' = Append(ev, Event("Swap", 0))
             /\ i' = i + 1
             /\ Goto(IF i < Len(queries) THEN "rt_begin1" ELSE "rt_slice")
        ELSE /\ Panic("swap_buffers")
             /\ UNCHANGED <<swaps, ev, i>>
    /\ UNCHANGED <<env_vars, main_vars, gl, depth, qobj, scenario, args,
                   ridx, total_time, pixel_count, total_draws,
                   fullscreen_time, megapixel_time, issued, reads, drawn>>

(***************************************************************************)
(* run_tests: read-back and aggregation                                    *)
(***************************************************************************)
\* Arithmetic overflow of a usize operation: a panic in a build with
\* overflow checks, a wrap to 64 bits otherwise.
Overflows(x) == debug /\ ~Fits64(x)

\* queries[warmup .. queries.len() - warmup] for a pool of n queries:
\* "ok", or the panic the range raises.
SliceOutcome(n, w) ==
    IF w > n THEN (IF debug THEN "arithmetic overflow" ELSE "slice index")
    ELSE IF w > n - w THEN "slice index"
    ELSE "ok"

\* A range that trims the front only: warmup .. n.
SliceLast_KeepTail(n, w) == n

\* The 1-based positions the range warmup .. n - warmup selects.
SliceFirst(n, w) == w + 1
SliceLast(n, w) == n - w

RT_Slice ==
    /\ pc = "rt_slice"
    /\ LET n == Len(queries)
           w == args.warmup
       IN  IF SliceOutcome(n, w) = "ok"
           THEN /\ ridx' = SliceFirst(n, w)
                /\ Goto(IF SliceFirst(n, w) <= SliceLast(n, w)
                        THEN "rt_read" ELSE "rt_pixels")
           ELSE /\ Panic(SliceOutcome(n, w))
                /\ ridx' = ridx
    /\ UNCHANGED <<env_vars, main_vars, gl, depth, qobj, scenario, args, i,
                   total_time, pixel_count, total_draws, fullscreen_time,
                   megapixel_time, hist_vars>>

\* One element of the map-and-sum: GetQueryObjectuiv(query, QUERY_RESULT),
\* `result as usize`, added to the running sum.
RT_Read ==
    /\ pc = "rt_read"
    /\ LET q == queries[ridx]
           sum == Add(total_time, qobj[q].result)
       IN  /\ reads' = Append(reads,
                  [q |-> q, begun |-> qobj[q].begun, ended |-> qobj[q].ended,
                   issued |-> Len(issued), swaps |-> swaps])
           /\ IF Overflows(sum)
              THEN /\ Panic("arithmetic overflow")
                   /\ UNCHANGED <<total_time, ridx>>
              ELSE /\ total_time' = Wrap64(sum)
                   /\ ridx' = ridx + 1
                   /\ Goto(IF ridx < SliceLast(Len(queries), args.warmup)
                           THEN "rt_read" ELSE "rt_pixels")
    /\ UNCHANGED <<env_vars, main_vars, gl, depth, qobj, scenario, args, i,
                   pixel_count, total_draws, fullscreen_time, megapixel_time,
                   ev, issued, swaps, drawn>>

\* (width as f32 * height as f32 * hidpi) as usize: the product rounded
\* towards zero.
PixelCount(win) ==
    (win.size[1] * win.size[2] * win.hidpi[1]) \div win.hidpi[2]

RT_PixelCount ==
    /\ pc = "rt_pixels"
    /\ pixel_count' = PixelCount(window)
    /\ Println("Tested")
    /\ Goto("rt_fullscreen")
    /\ UNCHANGED <<env_vars, status, calls, queries, width, height, timings,
                   gl, depth, qobj, scenario, args, i, ridx, total_time,
                   total_draws, fullscreen_time, megapixel_time, hist_vars>>

\* Draw counts that forget the trimmed samples, or the instances.
TotalDraws_AllSamples(n, w, num_draws) == MulSmall(num_draws, n)
TotalDraws_NoInstances(n, w, num_draws) == FromNat(n - 2 * w)

\* (queries.len() - 2 * warmup) * num_draws, before it is cut to 64 bits.
TotalDraws(n, w, num_draws) == MulSmall(num_draws, n - 2 * w)

RT_Fullscreen ==
    /\ pc = "rt_fullscreen"
    /\ LET td == TotalDraws(Len(queries), args.warmup, args.num_draws)
       IN  IF Overflows(td)
           THEN /\ Panic("arithmetic overflow")
                /\ UNCHANGED <<total_draws, fullscreen_time, out>>
           ELSE /\ total_draws' = Wrap64(td)
                /\ IF Wrap64(td) = Zero
                   THEN /\ Panic("divide by zero")
                        /\ UNCHANGED <<fullscreen_time, out>>
                   ELSE /\ fullscreen_time' = Div(total_time, Wrap64(td))
                        /\ Println("full-screen time")
                        /\ Goto("rt_megapixel")
    /\ UNCHANGED <<env_vars, status, calls, queries, width, height, timings,
                   gl, depth, qobj, scenario, args, i, ridx, total_time,
                   pixel_count, megapixel_time, hist_vars>>

\* A scaling by 1000 only.
Scaled_Once(t) == <<MulSmall(t, 1000), MulSmall(t, 1000)>>

\* fullscreen_time * 1000 * 1000, one multiplication at a time:
\* <<first product, second product>>, neither cut to 64 bits.
Scaled(t) ==
    <<MulSmall(t, 1000), MulSmall(Wrap64(MulSmall(t, 1000)), 1000)>>

RT_Megapixel ==
    /\ pc = "rt_megapixel"
    /\ LET sc == Scaled(fullscreen_time)
       IN  IF Overflows(sc[1]) \/ Overflows(sc[2])
           THEN /\ Panic("arithmetic overflow")
                /\ UNCHANGED <<megapixel_time, out>>
           ELSE IF pixel_count = 0
           THEN /\ Panic("divide by zero")
                /\ UNCHANGED <<megapixel_time, out>>
           ELSE /\ megapixel_time' = Div(Wrap64(sc[2]), FromNat(pixel_count))
                /\ Println("mega-pixel time")
                /\ Goto("rt_returned")
    /\ UNCHANGED <<env_vars, status, calls, queries, width, height, timings,
                   gl, depth, qobj, scenario, args, i, ridx, total_time,
                   pixel_count, total_draws, fullscreen_time, hist_vars>>

(***************************************************************************)
(* Specifications                                                          *)
(***************************************************************************)
UniformDepth(size, v) == [p \in Pixels(size) |-> v]

NoLocals ==
    /\ i = 0
    /\ ridx = 0
    /\ total_time = Zero
    /\ pixel_count = 0
    /\ total_draws = Zero
    /\ fullscreen_time = Zero
    /\ megapixel_time = Zero
    /\ ev = << >>
    /\ issued = << >>
    /\ swaps = 0
    /\ reads = << >>
    /\ drawn = NoDraw

\* The process as main starts: nothing created, the window and the build
\* as the environment has them.
Init ==
    /\ pc = "create_window"
    /\ panic = ""
    /\ debug \in BOOLEAN
    /\ window \in Windows
    /\ gpu \in {"max", "ramp"}
    /\ status = [ctx |-> -1, vs |-> -1, fs |-> -1, link |-> -1]
    /\ calls = << >>
    /\ queries = << >>
    /\ gl = FreshContext(window.size)
    /\ depth \in {UniformDepth(window.size, v) : v \in DepthValues}
    /\ qobj = << >>
    /\ out = << >>
    /\ width = 0
    /\ height = 0
    /\ timings = NoTimings
    /\ scenario = 0
    /\ args = NoArgs
    /\ NoLocals

RunTestsNext ==
    \/ RT_Begin1 \/ RT_Clear \/ RT_Begin2 \/ RT_End1 \/ RT_Draw \/ RT_End2
    \/ RT_DebugAssert \/ RT_Swap
    \/ RT_Slice \/ RT_Read \/ RT_PixelCount \/ RT_Fullscreen \/ RT_Megapixel

Next ==
    \/ M_CreateWindow \/ M_CompileVS \/ M_CompileFS \/ link_program
    \/ M_GenObjects \/ M_SetState \/ M_PrintInfo
    \/ M_RunColorDepth \/ M_RunDepthReject \/ M_RunClear
    \/ M_PrintTable \/ M_Delete
    \/ RunTestsNext

Spec == Init /\ [][Next]_vars

\* run_tests on its own: the arguments a caller may pass, in the context
\* main has set up by its first call.  Small pools take every combination
\* of the inputs; the pools of main's size take main's three argument
\* lists.
SmallInputs ==
    [n : 0..MaxLen, warmup : 0..MaxWarmup, num_draws : NumDraws,
     flags : SUBSET Flags,
     clear : {<<{COLOR_BUFFER_BIT, DEPTH_BUFFER_BIT}, FALSE>>,
              <<{COLOR_BUFFER_BIT}, TRUE>>},
     gpu : {"free"}]

MainInputs ==
    {[n |-> config.num_queries, warmup |-> config.warmup_frames,
      num_draws |-> Scenarios[k].num_draws, flags |-> Scenarios[k].flags,
      clear |-> <<Scenarios[k].clear_mask, config.clear_scissored>>,
      gpu |-> g] : k \in 1..3, g \in {"max", "ramp"}}

InitRun ==
    /\ debug \in BOOLEAN
    /\ window \in Windows
    /\ \E in \in SmallInputs \cup MainInputs :
        /\ gpu = in.gpu
        /\ queries = GenQueries(in.n)
        /\ qobj = [k \in 1..in.n |-> [begun |-> 0, ended |-> 0, result |-> Zero]]
        /\ calls = << [call |-> "CreateShader", objs |-> {Shader(1)}],
                      [call |-> "CreateShader", objs |-> {Shader(2)}],
                      [call |-> "CreateProgram", objs |-> {Program(1)}],
                      [call |-> "GenVertexArrays", objs |-> {VertexArray(1)}],
                      [call |-> "GenQueries", objs |-> QuerySet(in.n)] >>
        /\ args = [test_name |-> "test", clear_mask |-> in.clear[1],
                   num_draws |-> in.num_draws, warmup |-> in.warmup,
                   flags |-> in.flags, clear_scissored |-> in.clear[2],
                   width |-> window.size[1], height |-> window.size[2]]
        /\ pc = Entry(in.n)
    /\ panic = ""
    /\ status = [ctx |-> 1, vs |-> 1, fs |-> 1, link |-> 1]
    /\ gl = [SetPipelineState(FreshContext(window.size)) EXCEPT
               !.vao = 1, !.program = 1]
    /\ depth = UniformDepth(window.size, ClearDepthValue)
    /\ out = <<"Renderer", "Version", "Screen">>
    /\ width = window.size[1]
    /\ height = window.size[2]
    /\ timings = NoTimings
    /\ scenario = 1
    /\ i = 1
    /\ ridx = 0
    /\ total_time = Zero
    /\ pixel_count = 0
    /\ total_draws = Zero
    /\ fullscreen_time = Zero
    /\ megapixel_time = Zero
    /\ ev = << >>
    /\ issued = << >>
    /\ swaps = 0
    /\ reads = << >>
    /\ drawn = NoDraw

SpecRun == InitRun /\ [][RunTestsNext]_vars

(***************************************************************************)
(* Properties                                                              *)
(***************************************************************************)
\* The read-back of the current run_tests call is over.
AfterReadBack ==
    pc \in {"rt_pixels", "rt_fullscreen", "rt_megapixel", "rt_returned"}

\* The sum of the results the query objects hold at pool positions lo..hi.
RECURSIVE SumResults(_, _)
SumResults(lo, hi) ==
    IF lo > hi THEN Zero
    ELSE Add(qobj[queries[lo]].result, SumResults(lo + 1, hi))

Retained == Len(queries) - 2 * args.warmup

\* C1: for a pool of n queries and a warmup w with 2*w < n, every query of
\* the pool is sampled, and the total run_tests aggregates is the sum of
\* the results at pool positions w .. n-w-1 (1-based: w+1 .. n-w), each
\* read exactly once and in pool order; the first w and the last w results
\* are not read.
C1_TrimmedSum ==
    (AfterReadBack /\ 2 * args.warmup < Len(queries)) =>
        /\ issued = queries
        /\ [k \in 1..Len(reads) |-> reads[k].q]
             = SubSeq(queries, args.warmup + 1, Len(queries) - args.warmup)
        /\ total_time
             = SumResults(args.warmup + 1, Len(queries) - args.warmup)

\* A returned call that trimmed a sample at each end of a pool whose
\* trimmed and retained results differ.
C1_Witness ==
    /\ pc = "rt_returned"
    /\ Len(queries) = 3 /\ args.warmup = 1
    /\ qobj[1].result = U32Max
    /\ qobj[2].result = FromNat(7)
    /\ qobj[3].result = U32Max
    /\ total_time = FromNat(7)

\* C2 as stated: the first value run_tests returns is the sum of the
\* retained results divided by the number of retained samples, whatever
\* the instance count.
C2_PerSample ==
    pc = "rt_returned" =>
        fullscreen_time
          = Div(SumResults(args.warmup + 1, Len(queries) - args.warmup),
                FromNat(Retained))

\* C2, amended: the first value run_tests returns is the sum of the
\* retained results divided, rounding down, by the number of draws: the
\* retained samples times the instances per sample, as a usize.
C2_PerDraw ==
    pc = "rt_returned" =>
        fullscreen_time
          = Div(SumResults(args.warmup + 1, Len(queries) - args.warmup),
                Wrap64(MulSmall(args.num_draws, Retained)))

\* A returned call that drew two instances per sample and whose per-draw
\* time is not the per-sample time.
C2_Witness ==
    /\ pc = "rt_returned"
    /\ args.num_draws = FromNat(2)
    /\ Retained = 3
    /\ total_time = MulSmall(U32Max, 3)
    /\ fullscreen_time = Div(U32Max, FromNat(2))

\* C3: the second value run_tests returns is
\* floor(per-draw time * 1,000,000 / pixel count), where the pixel count
\* is inner width * inner height * hiDPI factor rounded down; the per-draw
\* time is at most a 32-bit counter, and neither multiplication by 1000
\* leaves 64 bits, so no call ends in an overflow of that product.
C3_Megapixel ==
    /\ pc \in {"rt_megapixel", "rt_returned"} =>
         /\ Leq(fullscreen_time, U32Max)
         /\ Fits64(MulSmall(fullscreen_time, 1000))
         /\ Fits64(MulSmall(MulSmall(fullscreen_time, 1000), 1000))
    /\ pc = "rt_returned" =>
         /\ pixel_count
              = (window.size[1] * window.size[2] * window.hidpi[1])
                   \div window.hidpi[2]
         /\ megapixel_time
              = Div(MulSmall(MulSmall(fullscreen_time, 1000), 1000),
                    FromNat(pixel_count))
    /\ (pc = "panicked" /\ panic = "arithmetic overflow") =>
         fullscreen_time = Zero

\* A returned call whose per-draw time is the largest 32-bit counter and
\* whose pixel count does not divide the scaled time.
C3_Witness ==
    /\ pc = "rt_returned"
    /\ fullscreen_time = U32Max
    /\ pixel_count = 9
    /\ megapixel_time # Zero
    /\ MulSmall(megapixel_time, 9)
         # MulSmall(MulSmall(fullscreen_time, 1000), 1000)

\* The sample whose events ev holds has been presented.
SampleDone == ev # << >> /\ ev[Len(ev)].op = "Swap"

Positions(op) == {k \in 1..Len(ev) : ev[k].op = op}

Only(S) == CHOOSE k \in S : TRUE

\* C4: for every sample and every flag set, the sample's handle gets
\* exactly one BeginQuery and one EndQuery, Begin before End and both
\* before the one buffer swap; the one clear lies between them iff CLEAR
\* is set, and the one draw lies between them iff DRAW is set.
C4_Bracket ==
    SampleDone =>
        /\ Cardinality(Positions("BeginQuery")) = 1
        /\ Cardinality(Positions("EndQuery")) = 1
        /\ Cardinality(Positions("Clear")) = 1
        /\ Cardinality(Positions("Draw")) = 1
        /\ Cardinality(Positions("Swap")) = 1
        /\ LET b == Only(Positions("BeginQuery"))
               e == Only(Positions("EndQuery"))
               c == Only(Positions("Clear"))
               d == Only(Positions("Draw"))
           IN  /\ ev[b].q = queries[i - 1]
               /\ ev[e].q = queries[i - 1]
               /\ b < e
               /\ e < Only(Positions("Swap"))
               /\ (b < c /\ c < e) <=> ("CLEAR" \in args.flags)
               /\ (b < d /\ d < e) <=> ("DRAW" \in args.flags)

\* The second sample of a call with both flags set has been presented:
\* its bracket holds the clear and the draw.
C4_Witness ==
    /\ SampleDone
    /\ i = 3
    /\ args.flags = {"CLEAR", "DRAW"}
    /\ ev = << Event("BeginQuery", 2), Event("Clear", 0), Event("Draw", 0),
               Event("EndQuery", 2), Event("Swap", 0) >>

\* The GL objects main creates.
Objects ==
    {Shader(1), Shader(2), Program(1), VertexArray(1)}
        \cup QuerySet(config.num_queries)

CreateCalls ==
    {"CreateShader", "CreateProgram", "GenVertexArrays", "GenQueries"}

\* How many of the calls made so far created (deleted) object o.
Created(o) ==
    Cardinality({k \in 1..Len(calls) :
                    calls[k].call \in CreateCalls /\ o \in calls[k].objs})
Deleted(o) ==
    Cardinality({k \in 1..Len(calls) :
                    ~(calls[k].call \in CreateCalls) /\ o \in calls[k].objs})

\* C5: in a run that reaches the end of main, every GL object main
\* creates (two shaders, the program, the vertex array, the num_queries
\* timer queries) has been created exactly once and deleted exactly once;
\* while the scenarios run nothing is created or deleted.
C5_CreatedOnceDeletedOnce ==
    /\ pc = "done" =>
         \A o \in Objects : Created(o) = 1 /\ Deleted(o) = 1
    /\ (scenario >= 1 /\ pc # "done") =>
         \A o \in Objects : Created(o) = 1 /\ Deleted(o) = 0

\* C6: in each of main's scenarios run_tests samples the queries of the
\* same num_queries-long pool in pool order, with one buffer swap per
\* sample, and every result it reads was read after the last sample of
\* the scenario was issued and presented, from a query begun and ended in
\* that scenario.
C6_ReadAfterLastSample ==
    scenario >= 1 =>
        /\ queries = GenQueries(config.num_queries)
        /\ Len(issued) <= Len(queries)
        /\ issued = SubSeq(queries, 1, Len(issued))
        /\ swaps <= Len(issued) /\ Len(issued) <= swaps + 1
        /\ \A k \in 1..Len(reads) :
             /\ reads[k].issued = Len(queries)
             /\ reads[k].swaps = Len(queries)
             /\ reads[k].begun = scenario
             /\ reads[k].ended = scenario

\* The third scenario has read back every retained result, each of a
\* query that also ran in the two scenarios before.
C6_Witness ==
    /\ scenario = 3
    /\ pc = "rt_pixels"
    /\ Len(reads) = config.num_queries - 2 * config.warmup_frames

\* A start-up step has failed.
StartupFailed ==
    status.ctx = 0 \/ status.vs = 0 \/ status.fs = 0 \/ status.link = 0

\* C7: when context creation fails, or a compile or link status is not 1,
\* the process has panicked at that step: no step after it was tried, no
\* step was tried twice, no scenario was started, no query begun, and
\* nothing (so no timing report and no table row) was printed.
C7_StartupFailureIsFatal ==
    StartupFailed =>
        /\ pc = "panicked"
        /\ panic \in {"GlWindow::new", "compile_shader", "link_program"}
        /\ status.ctx = 0 => (status.vs = -1 /\ calls = << >>)
        /\ status.vs = 0 => status.fs = -1
        /\ status.fs = 0 => status.link = -1
        /\ \A o \in Objects : Created(o) <= 1
        /\ scenario = 0
        /\ issued = << >>
        /\ queries = << >>
        /\ gl.active = 0
        /\ out = << >>

\* The fragment shader failed to compile after the vertex shader had.
C7_Witness ==
    /\ pc = "panicked"
    /\ panic = "compile_shader"
    /\ status = [ctx |-> 1, vs |-> 1, fs |-> 0, link |-> -1]

\* A draw call of the current scenario has just run.
JustDrew == pc = "rt_end2"

NumPixels == Cardinality(DOMAIN depth)

\* C8: with the depth test LESS, depth writes on, clear depth 1.0 and no
\* scissored clear, every draw of the first scenario passes the depth
\* test at every pixel, and in the second and third scenarios every
\* fragment of every instance fails it and the depth buffer, which holds
\* the triangle's depth everywhere, is left unchanged.
C8_DepthStates ==
    scenario >= 1 =>
        /\ gl.depth_test /\ gl.depth_func = "LESS" /\ gl.depth_mask
        /\ gl.clear_depth = ClearDepthValue
        /\ ~args.clear_scissored
        /\ (JustDrew /\ scenario = 1) =>
             /\ drawn.pass = NumPixels
             /\ drawn.fail = 0
        /\ scenario \in {2, 3} =>
             /\ \A p \in DOMAIN depth : depth[p] = TriangleDepth
             /\ JustDrew =>
                  /\ drawn.pass = 0
                  /\ drawn.fail = config.num_rejects * NumPixels
                  /\ ~drawn.changed

\* A draw of the third scenario on a window of six pixels: all of its 120
\* fragments were rejected.
C8_Witness ==
    /\ scenario = 3
    /\ JustDrew
    /\ NumPixels = 6
    /\ drawn = [pass |-> 0, fail |-> 120, changed |-> FALSE]

\* C9: the divisor counts only what the queries bracket: with the draw in
\* the bracket it is retained samples * num_draws, with only the clear in
\* the bracket it is the number of retained samples.
C9_DivisorCountsTimedOps ==
    (pc = "rt_returned" /\ args.flags # {}) =>
        total_draws
          = IF "DRAW" \in args.flags
            THEN Wrap64(MulSmall(args.num_draws, Retained))
            ELSE FromNat(Retained)

\* The aggregation of the current call has ended: it returned, or it
\* raised one of the panics its own statements can raise.
AggregationPanics == {"slice index", "divide by zero", "arithmetic overflow"}

AggregationEnded ==
    pc = "rt_returned" \/ (pc = "panicked" /\ panic \in AggregationPanics)

\* 2*warmup < pool length, num_draws >= 1, pixel count non-zero.
C10_Conditions ==
    /\ 2 * args.warmup < Len(queries)
    /\ args.num_draws # Zero
    /\ (window.size[1] * window.size[2] * window.hidpi[1])
          \div window.hidpi[2] # 0

\* The arguments are those of one of main's calls.
MainCall ==
    /\ Len(queries) = config.num_queries
    /\ args.warmup = config.warmup_frames
    /\ args.num_draws \in {FromNat(1), FromNat(config.num_rejects)}

\* C10 as stated: the aggregation returns, rather than panics, exactly
\* when 2*warmup < pool length, num_draws >= 1 and the pixel count is
\* non-zero; main's values meet the first two, so on a window of non-zero
\* size each of its calls returns.
C10_ReturnsExactlyWhen ==
    /\ AggregationEnded => (pc = "rt_returned" <=> C10_Conditions)
    /\ (MainCall /\ AggregationEnded
          /\ window.size[1] > 0 /\ window.size[2] > 0) => pc = "rt_returned"

\* C10, amended: the aggregation ends in a slice-bounds, overflow or
\* divide-by-zero panic whenever 2*warmup >= pool length, num_draws = 0 or
\* the pixel count is 0, and in none of them whenever none of these holds
\* and its usize arithmetic stays below 2^64 (the sum of the retained
\* results, and retained samples * num_draws); main's values meet all of
\* this, so on a window of non-zero size each of its calls returns.
C10_ReturnsWhen ==
    /\ (AggregationEnded /\ ~C10_Conditions) => pc = "panicked"
    /\ (AggregationEnded /\ C10_Conditions
          /\ Fits64(SumResults(args.warmup + 1, Len(queries) - args.warmup))
          /\ Fits64(MulSmall(args.num_draws, Retained)))
         => pc = "rt_returned"
    /\ MainCall =>
         /\ 2 * args.warmup < Len(queries)
         /\ args.num_draws # Zero
         /\ Fits64(MulSmall(args.num_draws, Retained))
    /\ (MainCall /\ AggregationEnded
          /\ window.size[1] > 0 /\ window.size[2] > 0) => pc = "rt_returned"

\* A call of main's size has returned its two timings.
C10_Witness ==
    /\ MainCall
    /\ pc = "rt_returned"
    /\ args.num_draws = FromNat(config.num_rejects)
    /\ fullscreen_time # Zero

====
